---- MODULE Spec2Model ----
(***************************************************************************)
(* A model of latex-translate: the Chunker and the Dispatcher of           *)
(* src/src/simple_translator.py, the Translation Client of                 *)
(* src/src/llm_client.py, the Configuration of src/src/config.py and the   *)
(* loop over the input files of src/latex_translate.py.                    *)
(*                                                                         *)
(* Text is a sequence of atoms.  "a" is a letter of prose, " " a blank and *)
(* "\n" a line break.  "H" stands for one whole match of the sectioning    *)
(* pattern of _create_simple_chunks (a sectioning command with its brace   *)
(* argument), "X" for the text of a special token that the tokenizer       *)
(* refuses to encode.  In a response, "P1".."P4" stand for the four        *)
(* boilerplate prefixes of _extract_translation, and "[TRANSLATED] " for   *)
(* the marker of the dry-run placeholder.                                  *)
(*                                                                         *)
(* Python indexes lists from 0; the sequences here are indexed from 1, so  *)
(* index i of the model is index i-1 of the code.                          *)
(***************************************************************************)
EXTENDS Integers, Sequences, FiniteSets, TLC

\* ------------------------------------------------------------------ bounds
\* Longest document text the Chunker is run on.
MaxLen == 6
\* Largest chunk token budget (config.chunk_size) the Chunker is run with.
MaxBudget == 4
\* Longest list of chunks the Dispatcher is run on.
MaxChunks == 2
\* Largest pool size (max_workers) the Dispatcher is run with.
MaxWorkers == 2
\* Most rate-limit responses the service gives one call of a dispatch.
MaxRateLimits == 1
\* Largest chunk_size and max_tokens a Config is constructed with.
MaxConfigInt == 2
\* The number of seconds a Retry-After header names, when it names seconds.
RetryAfterSeconds == 2
\* Longest list of input files main is run on.
MaxFiles == 3

\* --------------------------------------------------------------- constants
\* Retry(total=3): the retries the transport adapter makes.
RetryTotal == 3
\* response.headers.get('Retry-After', 60)
DefaultRetryAfter == 60
\* The interpreter's limit on nested calls, which bounds the recursion of
\* _make_api_call.  The frames outside _make_api_call are not counted, so a
\* run of the program reaches the limit somewhat earlier than the model.
RecursionLimit == 1000

\* -------------------------------------------------------------------- text
Chars == {"a", " ", "\n", "H", "X"}

Texts == UNION {[1..n -> Chars] : n \in 0..MaxLen}

IsSpace(c) == c \in {" ", "\n"}

\* str.strip() leaves nothing: the text is empty or whitespace only.
IsBlank(s) == \A i \in 1..Len(s) : IsSpace(s[i])

\* str.rstrip()
RStrip(s) ==
    IF IsBlank(s) THEN <<>>
    ELSE LET last == CHOOSE i \in 1..Len(s) :
                        /\ ~IsSpace(s[i])
                        /\ \A j \in (i+1)..Len(s) : IsSpace(s[j])
         IN SubSeq(s, 1, last)

\* str.lstrip()
LStrip(s) ==
    IF IsBlank(s) THEN <<>>
    ELSE LET first == CHOOSE i \in 1..Len(s) :
                         /\ ~IsSpace(s[i])
                         /\ \A j \in 1..(i-1) : IsSpace(s[j])
         IN SubSeq(s, first, Len(s))

\* str.strip()
Strip(s) == LStrip(RStrip(s))

\* ''.join(parts)
RECURSIVE Join(_)
Join(parts) ==
    IF parts = <<>> THEN <<>> ELSE Head(parts) \o Join(Tail(parts))

\* len(text.split()): the number of maximal runs of non-whitespace.
WordCount(s) ==
    Cardinality({i \in 1..Len(s) :
                    /\ ~IsSpace(s[i])
                    /\ (i = 1 \/ IsSpace(s[i-1]))})

\* ----------------------------------------------------------- token estimate
\* tokenizer.encode(text) raises on the text of a special token, and the
\* bare except of _count_tokens then takes the word-count estimate.
Encodable(s) == \A i \in 1..Len(s) : s[i] # "X"

\* _count_tokens, times 10 (the fallback estimate is words * 1.3).  The
\* tokenizer is modelled as one token per atom.
CountTokens10(s) ==
    IF Encodable(s) THEN 10 * Len(s) ELSE 13 * WordCount(s)

\* self._count_tokens(text) > self.config.chunk_size
OverBudget(s, size) == CountTokens10(s) > 10 * size

\* ------------------------------------------------------------------ Chunker
\* re.split(section_pattern, content): the pattern has one capturing group,
\* so the matches themselves are kept, between the texts around them (an
\* empty text where two matches touch or one is at an end).
RECURSIVE SplitSections(_, _)
SplitSections(s, acc) ==
    IF s = <<>> THEN <<acc>>
    ELSE IF Head(s) = "H"
         THEN <<acc, <<"H">>>> \o SplitSections(Tail(s), <<>>)
         ELSE SplitSections(Tail(s), Append(acc, Head(s)))

\* A variant of SectionLoop that measures the segment alone, not the chunk
\* it would be appended to.
RECURSIVE SectionLoopSegmentOnly(_, _, _, _, _)
SectionLoopSegmentOnly(sections, k, chunks, current_chunk, size) ==
    IF k > Len(sections)
    THEN IF ~IsBlank(current_chunk) THEN Append(chunks, current_chunk)
                                    ELSE chunks
    ELSE LET section == sections[k]
         IN IF IsBlank(section)
            THEN SectionLoopSegmentOnly(sections, k + 1, chunks,
                                        current_chunk, size)
            ELSE IF OverBudget(section, size) /\ current_chunk # <<>>
                 THEN SectionLoopSegmentOnly(sections, k + 1,
                                  Append(chunks, current_chunk), section, size)
                 ELSE SectionLoopSegmentOnly(sections, k + 1,
                                  chunks, current_chunk \o section, size)

\* A variant of SectionLoop that closes a chunk after the segment that took
\* it over the budget, not before it.
RECURSIVE SectionLoopFlushAfter(_, _, _, _, _)
SectionLoopFlushAfter(sections, k, chunks, current_chunk, size) ==
    IF k > Len(sections)
    THEN IF ~IsBlank(current_chunk) THEN Append(chunks, current_chunk)
                                    ELSE chunks
    ELSE LET section == sections[k]
             potential_chunk == current_chunk \o section
         IN IF IsBlank(section)
            THEN SectionLoopFlushAfter(sections, k + 1, chunks,
                                       current_chunk, size)
            ELSE IF OverBudget(potential_chunk, size) /\ current_chunk # <<>>
                 THEN SectionLoopFlushAfter(sections, k + 1,
                                  Append(chunks, potential_chunk), <<>>, size)
                 ELSE SectionLoopFlushAfter(sections, k + 1,
                                  chunks, potential_chunk, size)

\* The for loop of _create_simple_chunks, from segment k on, and the flush
\* of the last chunk after it.
RECURSIVE SectionLoop(_, _, _, _, _)
SectionLoop(sections, k, chunks, current_chunk, size) ==
    IF k > Len(sections)
    THEN IF ~IsBlank(current_chunk) THEN Append(chunks, current_chunk)
                                    ELSE chunks
    ELSE LET section == sections[k]
             potential_chunk == current_chunk \o section
         IN IF IsBlank(section)
            THEN SectionLoop(sections, k + 1, chunks, current_chunk, size)
            ELSE IF OverBudget(potential_chunk, size) /\ current_chunk # <<>>
                 THEN SectionLoop(sections, k + 1,
                                  Append(chunks, current_chunk), section, size)
                 ELSE SectionLoop(sections, k + 1,
                                  chunks, potential_chunk, size)

\* A match of \n\s*\n that starts at i ends at the last line break of the
\* whitespace run that i is in (\s* is greedy); 0 if none starts at i.
ParaMatchEnd(s, i) ==
    LET ends == {j \in (i+1)..Len(s) :
                    /\ s[j] = "\n"
                    /\ \A m \in (i+1)..j : IsSpace(s[m])}
    IN IF s[i] = "\n" /\ ends # {}
       THEN CHOOSE j \in ends : \A m \in ends : m <= j
       ELSE 0

\* re.split(r'\n\s*\n', text)
RECURSIVE SplitParagraphs(_)
SplitParagraphs(s) ==
    LET starts == {i \in 1..Len(s) : ParaMatchEnd(s, i) # 0}
    IN IF starts = {} THEN <<s>>
       ELSE LET i == CHOOSE m \in starts : \A n \in starts : m <= n
                j == ParaMatchEnd(s, i)
            IN <<SubSeq(s, 1, i - 1)>>
                 \o SplitParagraphs(SubSeq(s, j + 1, Len(s)))

\* The for loop of _split_by_paragraphs, from paragraph k on, and the flush
\* of the last chunk after it.
RECURSIVE ParagraphLoop(_, _, _, _, _)
ParagraphLoop(paragraphs, k, chunks, current_chunk, size) ==
    IF k > Len(paragraphs)
    THEN IF ~IsBlank(current_chunk) THEN Append(chunks, RStrip(current_chunk))
                                    ELSE chunks
    ELSE LET paragraph == paragraphs[k]
             paragraph_with_separator == paragraph \o <<"\n", "\n">>
             potential_chunk == current_chunk \o paragraph_with_separator
         IN IF IsBlank(paragraph)
            THEN ParagraphLoop(paragraphs, k + 1, chunks, current_chunk, size)
            ELSE IF OverBudget(potential_chunk, size) /\ current_chunk # <<>>
                 THEN ParagraphLoop(paragraphs, k + 1,
                                    Append(chunks, RStrip(current_chunk)),
                                    paragraph_with_separator, size)
                 ELSE ParagraphLoop(paragraphs, k + 1,
                                    chunks, potential_chunk, size)

\* _split_by_paragraphs
SplitByParagraphs(text, size) ==
    ParagraphLoop(SplitParagraphs(text), 1, <<>>, <<>>, size)

\* The chunks of the section-level pass of _create_simple_chunks.
SectionChunks(text, size) ==
    SectionLoop(SplitSections(text, <<>>), 1, <<>>, <<>>, size)

\* A variant of CreateSimpleChunks without the paragraph fallback.
CreateSimpleChunksNoFallback(text, size) == SectionChunks(text, size)

\* _create_simple_chunks
CreateSimpleChunks(text, size) ==
    LET chunks == SectionChunks(text, size)
    IN IF Len(chunks) = 1 /\ OverBudget(chunks[1], size)
       THEN SplitByParagraphs(chunks[1], size)
       ELSE chunks

\* ------------------------------------------------------- Translation Client
\* f"[TRANSLATED] {text}"
Placeholder(text) == <<"[TRANSLATED] ">> \o text

\* One pass of the prefix loop of _extract_translation.
RemovePrefix(c, prefix) ==
    IF c # <<>> /\ Head(c) = prefix THEN Strip(Tail(c)) ELSE c

\* The clean-up of _extract_translation: strip, then one pass over
\* prefixes_to_remove in the order of the list.
Clean(c) ==
    RemovePrefix(RemovePrefix(RemovePrefix(RemovePrefix(Strip(c),
        "P1"), "P2"), "P3"), "P4")

\* What the remote model makes of a text: the prose translated ("a" to
\* "b"), the rest kept.
ModelAnswer(text) ==
    [i \in 1..Len(text) |-> IF text[i] = "a" THEN "b" ELSE text[i]]

\* The completions the service may send for a text: the answer, with or
\* without boilerplate in front and whitespace around.
RawContents(text) ==
    {lead \o ModelAnswer(text) \o trail :
        lead \in {<<>>, <<" ", "P3", " ">>, <<"P2", "P1">>},
        trail \in {<<>>, <<"\n">>}}

\* The body of an HTTP 200 response: not JSON at all, JSON without
\* choices[0].message.content, or JSON with it.
NoBody == [shape |-> "none", content |-> <<>>]

Bodies(text) ==
    {[shape |-> "not_json", content |-> <<>>],
     [shape |-> "missing", content |-> <<>>]}
    \cup {[shape |-> "ok", content |-> c] : c \in RawContents(text)}

\* The Retry-After header of an HTTP 429 response: none, a number of
\* seconds, or an HTTP date.
RetryAfterHeaders == {"absent", "seconds", "date"}

\* int(response.headers.get('Retry-After', 60)), for a header int() reads.
RetryAfter(header) ==
    IF header = "absent" THEN DefaultRetryAfter ELSE RetryAfterSeconds

\* A call before its first step.
CallStart ==
    [st |-> "Start", depth |-> 0, attempts |-> 0, sleep |-> 0,
     body |-> NoBody, result |-> <<>>, error |-> ""]

\* _make_api_call raises: the exception leaves every nested frame.
Raised(c, attempts, error) ==
    [c EXCEPT !.st = "Raised", !.attempts = attempts, !.error = error]

\* A variant of PostSuccessors whose adapter makes one retry more.
PostSuccessorsExtraRetry(c, text, limit) ==
    IF c.depth >= RecursionLimit
    THEN {Raised(c, 0, "RecursionError")}
    ELSE {Raised(c, RetryTotal + 2, "ConnectionError")}
         \cup UNION {
            {Raised(c, n, "HTTPError")}
            \cup {Raised(c, n, "JSONDecodeError")}
            \cup {[c EXCEPT !.st = "Returned", !.attempts = n, !.body = b] :
                    b \in {x \in Bodies(text) : x.shape # "not_json"}}
            \cup (IF c.depth <= limit
                  THEN {IF h = "date"
                        THEN Raised(c, n, "ValueError")
                        ELSE [c EXCEPT !.st = "RateLimited", !.attempts = 0,
                                       !.sleep = RetryAfter(h)] :
                        h \in RetryAfterHeaders}
                  ELSE {})
            : n \in 1..(RetryTotal + 2)}

\* What one session.post, and the lines of _make_api_call after it, can
\* lead to, for a call that is sending at nesting depth c.depth.  The
\* adapter makes up to RetryTotal retries when the connection fails; it
\* does not retry a POST on the status of a response.  The service answers
\* with at most `limit` rate-limit responses.
PostSuccessors(c, text, limit) ==
    IF c.depth >= RecursionLimit
    THEN {Raised(c, 0, "RecursionError")}
    ELSE {Raised(c, RetryTotal + 1, "ConnectionError")}
         \cup UNION {
            {Raised(c, n, "HTTPError")}
            \cup {Raised(c, n, "JSONDecodeError")}
            \cup {[c EXCEPT !.st = "Returned", !.attempts = n, !.body = b] :
                    b \in {x \in Bodies(text) : x.shape # "not_json"}}
            \cup (IF c.depth <= limit
                  THEN {IF h = "date"
                        THEN Raised(c, n, "ValueError")
                        ELSE [c EXCEPT !.st = "RateLimited", !.attempts = 0,
                                       !.sleep = RetryAfter(h)] :
                        h \in RetryAfterHeaders}
                  ELSE {})
            : n \in 1..(RetryTotal + 1)}

\* time.sleep(retry_after) is over: return self._make_api_call(prompt).
WakeSuccessors(c) ==
    {[c EXCEPT !.st = "Sending", !.depth = c.depth + 1, !.sleep = 0]}

\* The steps of _make_api_call.
ApiSuccessors(c, text, limit) ==
    IF c.st = "Sending" THEN PostSuccessors(c, text, limit)
    ELSE IF c.st = "RateLimited" THEN WakeSuccessors(c)
    ELSE {}

\* A variant of AfterApi without the except clause of translate_text.
AfterApiNoExcept(a, text) ==
    IF a.st = "Returned" /\ a.body.shape = "ok"
    THEN [a EXCEPT !.st = "Succeeded", !.body = NoBody,
                   !.result = Clean(a.body.content)]
    ELSE IF a.st = "Returned"
    THEN [a EXCEPT !.st = "Raised", !.body = NoBody, !.error = "ValueError"]
    ELSE a

\* The try block of translate_text around _make_api_call and
\* _extract_translation: the cleaned content when both return, the text
\* itself when either raises.
AfterApi(a, text) ==
    IF a.st = "Returned" /\ a.body.shape = "ok"
    THEN [a EXCEPT !.st = "Succeeded", !.body = NoBody,
                   !.result = Clean(a.body.content)]
    ELSE IF a.st = "Returned"
    THEN [a EXCEPT !.st = "FailedFallback", !.body = NoBody,
                   !.result = text, !.error = "ValueError"]
    ELSE IF a.st = "Raised"
    THEN [a EXCEPT !.st = "FailedFallback", !.result = text]
    ELSE a

\* A variant of TranslateBegin that ignores config.dry_run.
TranslateBeginAlwaysSends(c, text, dry) ==
    [c EXCEPT !.st = "Sending", !.depth = 1]

\* The first lines of translate_text: the placeholder in a dry run, the
\* first _make_api_call otherwise.
TranslateBegin(c, text, dry) ==
    IF dry
    THEN [c EXCEPT !.st = "DonePlaceholder", !.result = Placeholder(text)]
    ELSE [c EXCEPT !.st = "Sending", !.depth = 1]

\* The steps of translate_text.
TranslateSuccessors(c, text, dry, limit) ==
    IF c.st = "Start" THEN {TranslateBegin(c, text, dry)}
    ELSE {AfterApi(a, text) : a \in ApiSuccessors(c, text, limit)}

\* translate_text has returned.
Terminal(c) == c.st \in {"DonePlaceholder", "Succeeded", "FailedFallback"}

\* --------------------------------------------------------------- Dispatcher
\* [None] * len(chunks): a slot no result was written to.
None == <<"None">>

\* The output file as it was before the run (missing, or left by an earlier
\* run): nothing has created or written it.
Untouched == <<"untouched">>

\* The text of the request test_connection sends: "Hello world".
HelloWorld == <<"a", " ", "a">>

\* A task of the pool before executor.submit.
FutureIdle ==
    [st |-> "unsubmitted", call |-> CallStart, index |-> 0, text |-> <<>>,
     exc |-> FALSE, outcome |-> "", error |-> ""]

\* A variant of WorkerEntry that hands a whitespace-only chunk to the client
\* like any other.
WorkerEntryNoBlankCheck(f, i, chunk) ==
    [f EXCEPT !.st = "running"]

\* translate_chunk_with_index up to its call of translate_text: a chunk that
\* is empty or whitespace only is returned at once, with its index.
WorkerEntry(f, i, chunk) ==
    IF IsBlank(chunk)
    THEN [f EXCEPT !.st = "done", !.index = i, !.text = chunk,
                   !.outcome = "skipped"]
    ELSE [f EXCEPT !.st = "running"]

\* translate_text has returned to translate_chunk_with_index, which returns
\* the index with the text: the future is done.
WorkerExit(f, i, c) ==
    [f EXCEPT !.st = "done", !.call = CallStart, !.index = i,
              !.text = c.result, !.outcome = c.st, !.error = c.error]

\* A variant of StoreResult that fills the slots in the order of completion.
StoreResultInCompletionOrder(slots, f, i, chunk, done) ==
    IF f.exc
    THEN [slots |-> [slots EXCEPT ![i] = chunk], completed |-> done,
          aborted |-> FALSE]
    ELSE [slots |-> [slots EXCEPT ![done + 1] = f.text],
          completed |-> done + 1, aborted |-> FALSE]

\* A variant of StoreResult without the except clause around future.result().
StoreResultNoExcept(slots, f, i, chunk, done) ==
    IF f.exc
    THEN [slots |-> slots, completed |-> done, aborted |-> TRUE]
    ELSE [slots |-> [slots EXCEPT ![f.index] = f.text],
          completed |-> done + 1, aborted |-> FALSE]

\* The body of the as_completed loop for the future of chunk i: the result
\* goes to the slot of the index it carries; if future.result() raises, the
\* chunk itself goes to the slot future_to_index names.
StoreResult(slots, f, i, chunk, done) ==
    IF f.exc
    THEN [slots |-> [slots EXCEPT ![i] = chunk], completed |-> done,
          aborted |-> FALSE]
    ELSE [slots |-> [slots EXCEPT ![f.index] = f.text],
          completed |-> done + 1, aborted |-> FALSE]

\* The list the dry-run branch of _translate_chunks_parallel returns.
DryRunResult(chunk_list, returned) == chunk_list

\* ------------------------------------------------------------ Configuration
\* A variant of PostInit that lets a chunk_size of 0 through.
PostInitChunkSizeNegative(args) ==
    IF args.api_key = "" THEN "API key is required"
    ELSE IF args.source_lang = "" \/ args.target_lang = ""
    THEN "Both source and target languages are required"
    ELSE IF args.chunk_size < 0 THEN "Chunk size must be positive"
    ELSE IF args.max_tokens <= 0 THEN "Max tokens must be positive"
    ELSE IF ~(0 <= args.temperature10 /\ args.temperature10 <= 20)
    THEN "Temperature must be between 0 and 2"
    ELSE ""

\* Config.__post_init__: the message of the ValueError it raises, "" when it
\* raises none.  The temperature is held in tenths.
PostInit(args) ==
    IF args.api_key = "" THEN "API key is required"
    ELSE IF args.source_lang = "" \/ args.target_lang = ""
    THEN "Both source and target languages are required"
    ELSE IF args.chunk_size <= 0 THEN "Chunk size must be positive"
    ELSE IF args.max_tokens <= 0 THEN "Max tokens must be positive"
    ELSE IF ~(0 <= args.temperature10 /\ args.temperature10 <= 20)
    THEN "Temperature must be between 0 and 2"
    ELSE ""

\* ------------------------------------------------------------------- state
VARIABLES
    cpc,          \* the Chunker run: "start", then "chunked"
    content,      \* the document text handed to _create_simple_chunks
    chunk_size,   \* config.chunk_size
    chunks,       \* the list _create_simple_chunks returned
    call,         \* one call of translate_text
    call_text,    \* the text of that call
    call_dry,     \* config.dry_run of that call
    config_args,  \* the arguments Config is constructed with
    config,       \* the construction: pending, a Config, or a ValueError
    pc,           \* where the run of the translator is
    dry_run,      \* config.dry_run
    max_workers,  \* the size of the pool
    test_call,    \* the _make_api_call of test_connection
    test_response, \* the shape of the body test_connection was returned
    http_sent,    \* whether the run has sent any HTTP request
    futures,      \* the task of each chunk
    translated_chunks, \* the slots of the results
    completed,    \* the counter of the as_completed loop
    dry_i,        \* the index of the dry-run loop
    client_returned, \* what translate_text returned for each chunk, or None
    output,       \* the output file: Untouched, or the content written
    exit_status,  \* the exit status of the process, -1 while it runs
    interrupted,  \* whether a KeyboardInterrupt was raised in the main thread
    input_files,  \* main's list of input files: what becomes of each
    file_index,   \* the position of main's loop over input_files
    attempted,    \* the files translate_file was called for, in order
    written       \* the files whose output file was written

chunker_vars == <<cpc, content, chunk_size, chunks>>
call_vars == <<call, call_text, call_dry>>
config_vars == <<config_args, config>>
exit_vars == <<output, exit_status, interrupted>>
run_vars == <<pc, dry_run, max_workers, test_call, test_response, http_sent,
              futures, translated_chunks, completed, dry_i, client_returned,
              exit_vars>>

main_vars == <<input_files, file_index, attempted, written>>

vars == <<chunker_vars, call_vars, config_vars, run_vars, main_vars>>

\* The values of the variables a specification does not use.
ChunkerIdle ==
    /\ cpc = "idle"
    /\ content = <<>>
    /\ chunk_size = 1
    /\ chunks = <<>>

CallIdle ==
    /\ call = CallStart
    /\ call_text = <<>>
    /\ call_dry = FALSE

\* The arguments main passes when the command line gives only the required
\* ones.
DefaultArgs ==
    [api_key |-> "sk", source_lang |-> "galician", target_lang |-> "english",
     chunk_size |-> 1, max_tokens |-> 1, temperature10 |-> 1]

ConfigIdle ==
    /\ config_args = DefaultArgs
    /\ config = [status |-> "built", message |-> ""]

MainIdle ==
    /\ input_files = <<>>
    /\ file_index = 0
    /\ attempted = <<>>
    /\ written = {}

RunIdle ==
    /\ pc = "idle"
    /\ dry_run = FALSE
    /\ max_workers = 1
    /\ test_call = CallStart
    /\ test_response = "none"
    /\ http_sent = FALSE
    /\ futures = <<>>
    /\ translated_chunks = <<>>
    /\ completed = 0
    /\ dry_i = 0
    /\ client_returned = <<>>
    /\ output = Untouched
    /\ exit_status = -1
    /\ interrupted = FALSE

\* ------------------------------------------------------- the Chunker's runs
ChunkInit ==
    /\ cpc = "start"
    /\ content \in Texts
    /\ chunk_size \in 1..MaxBudget
    /\ chunks = <<>>
    /\ CallIdle
    /\ ConfigIdle
    /\ RunIdle
    /\ MainIdle

\* translate_file hands the content it read to _create_simple_chunks.
CreateChunks ==
    /\ cpc = "start"
    /\ chunks' = CreateSimpleChunks(content, chunk_size)
    /\ cpc' = "chunked"
    /\ UNCHANGED <<main_vars, content, chunk_size, call_vars, config_vars,
                   run_vars>>

ChunkNext == CreateChunks

ChunkSpec == ChunkInit /\ [][ChunkNext]_vars

\* ------------------------------------------------ one call of translate_text
\* The texts a single call is made with.
CallTexts == {<<"a">>, <<"H", "a", " ">>}

CallInit ==
    /\ ChunkerIdle
    /\ ConfigIdle
    /\ RunIdle
    /\ MainIdle
    /\ call = CallStart
    /\ call_text \in CallTexts
    /\ call_dry \in BOOLEAN

\* translate_text is entered.
CallBegin ==
    /\ call.st = "Start"
    /\ call' \in TranslateSuccessors(call, call_text, call_dry, RecursionLimit)
    /\ UNCHANGED <<main_vars, chunker_vars, config_vars, run_vars, call_text,
                   call_dry>>

\* session.post returns or raises, and the call goes on from there.
CallPost ==
    /\ call.st = "Sending"
    /\ call' \in TranslateSuccessors(call, call_text, call_dry, RecursionLimit)
    /\ UNCHANGED <<main_vars, chunker_vars, config_vars, run_vars, call_text,
                   call_dry>>

\* The sleep of a rate-limited call ends and the request is sent again.
CallWake ==
    /\ call.st = "RateLimited"
    /\ call' \in TranslateSuccessors(call, call_text, call_dry, RecursionLimit)
    /\ UNCHANGED <<main_vars, chunker_vars, config_vars, run_vars, call_text,
                   call_dry>>

CallNext == CallBegin \/ CallPost \/ CallWake

CallSpec == CallInit /\ [][CallNext]_vars

\* ------------------------------------------------- a run of the translator
\* The chunks a dispatch is run on.
ChunkTexts == {<<>>, <<"\n">>, <<"a">>, <<"H", "a">>}

ChunkLists == UNION {[1..n -> ChunkTexts] : n \in 0..MaxChunks}

\* The chunks whose workers are inside translate_chunk_with_index.
Running == {i \in 1..Len(futures) : futures[i].st = "running"}

Init ==
    /\ cpc = "idle"
    /\ content = <<>>
    /\ chunk_size = 1
    /\ chunks \in ChunkLists
    /\ CallIdle
    /\ ConfigIdle
    /\ MainIdle
    /\ pc = "constructing"
    /\ dry_run \in BOOLEAN
    /\ max_workers \in 1..MaxWorkers
    /\ test_call = CallStart
    /\ test_response = "none"
    /\ http_sent = FALSE
    /\ futures = [i \in 1..Len(chunks) |-> FutureIdle]
    /\ translated_chunks = <<>>
    /\ completed = 0
    /\ dry_i = 0
    /\ client_returned = [i \in 1..Len(chunks) |-> None]
    /\ output = Untouched
    /\ exit_status = -1
    /\ interrupted = FALSE

\* SimpleLatexTranslator.__init__ calls test_connection, which returns True
\* at once in a dry run and sends its request otherwise.
TestConnection ==
    /\ pc = "constructing"
    /\ IF dry_run
       THEN /\ pc' = "ready"
            /\ UNCHANGED <<test_call, http_sent>>
       ELSE /\ pc' = "testing"
            /\ test_call' = [CallStart EXCEPT !.st = "Sending", !.depth = 1]
            /\ http_sent' = TRUE
    /\ UNCHANGED <<main_vars, chunker_vars, call_vars, config_vars,
                   exit_vars, dry_run,
                   max_workers,
                   test_response, futures, translated_chunks, completed,
                   dry_i, client_returned>>

\* A step of the _make_api_call of test_connection.  When it returns,
\* test_connection returns True whatever the body holds; when it raises,
\* test_connection returns False and __init__ raises ConnectionError.
TestStep ==
    /\ pc = "testing"
    /\ \E a \in ApiSuccessors(test_call, HelloWorld, MaxRateLimits) :
        IF a.st = "Returned"
        THEN /\ pc' = "ready"
             /\ test_response' = a.body.shape
             /\ test_call' = CallStart
        ELSE IF a.st = "Raised"
        THEN /\ pc' = "connect_failed"
             /\ test_call' = CallStart
             /\ UNCHANGED test_response
        ELSE /\ test_call' = a
             /\ UNCHANGED <<pc, test_response>>
    /\ UNCHANGED <<main_vars, chunker_vars, call_vars, config_vars,
                   exit_vars, dry_run,
                   max_workers,
                   http_sent, futures, translated_chunks, completed, dry_i,
                   client_returned>>

\* _translate_chunks_parallel is entered: the dry-run loop, or the slots are
\* allocated and the pool is made.
DispatchBegin ==
    /\ pc = "ready"
    /\ IF dry_run
       THEN /\ pc' = "dry_loop"
            /\ dry_i' = 1
            /\ UNCHANGED translated_chunks
       ELSE /\ pc' = IF Len(chunks) = 0 THEN "collecting" ELSE "submitting"
            /\ translated_chunks' = [i \in 1..Len(chunks) |-> None]
            /\ UNCHANGED dry_i
    /\ UNCHANGED <<main_vars, chunker_vars, call_vars, config_vars,
                   exit_vars, dry_run,
                   max_workers,
                   test_call, test_response, http_sent, futures, completed,
                   client_returned>>

\* One round of the dry-run loop: translate_text is called for a chunk that
\* is not whitespace only, and what it returns is dropped.
DryIterate ==
    /\ pc = "dry_loop"
    /\ dry_i <= Len(chunks)
    /\ IF IsBlank(chunks[dry_i])
       THEN UNCHANGED <<client_returned, http_sent>>
       ELSE LET c == TranslateBegin(CallStart, chunks[dry_i], dry_run)
            IN /\ client_returned' =
                     [client_returned EXCEPT ![dry_i] = c.result]
               /\ http_sent' = (http_sent \/ c.st = "Sending")
    /\ dry_i' = dry_i + 1
    /\ UNCHANGED <<main_vars, chunker_vars, call_vars, config_vars,
                   exit_vars, pc,
                   dry_run,
                   max_workers, test_call, test_response, futures,
                   translated_chunks, completed>>

\* The dry-run branch returns.
DryReturn ==
    /\ pc = "dry_loop"
    /\ dry_i > Len(chunks)
    /\ translated_chunks' = DryRunResult(chunks, client_returned)
    /\ pc' = "returned"
    /\ UNCHANGED <<main_vars, chunker_vars, call_vars, config_vars,
                   exit_vars, dry_run,
                   max_workers,
                   test_call, test_response, http_sent, futures, completed,
                   dry_i, client_returned>>

\* executor.submit for the next chunk, in index order; the as_completed loop
\* starts after the last.
Submit ==
    /\ pc = "submitting"
    /\ \E i \in 1..Len(chunks) :
        /\ futures[i].st = "unsubmitted"
        /\ \A j \in 1..(i - 1) : futures[j].st # "unsubmitted"
        /\ futures' = [futures EXCEPT ![i].st = "queued"]
        /\ pc' = IF i = Len(chunks) THEN "collecting" ELSE pc
    /\ UNCHANGED <<main_vars, chunker_vars, call_vars, config_vars,
                   exit_vars, dry_run,
                   max_workers,
                   test_call, test_response, http_sent, translated_chunks,
                   completed, dry_i, client_returned>>

\* A variant of WorkerStart in which a task starts as soon as it is queued,
\* whatever the number of tasks that are running.
WorkerStartUnbounded(i) ==
    /\ pc \in {"submitting", "collecting", "shutdown"}
    /\ futures[i].st = "queued"
    /\ \A j \in 1..(i - 1) : futures[j].st # "queued"
    /\ futures' = [futures EXCEPT ![i] = WorkerEntry(futures[i], i, chunks[i])]
    /\ UNCHANGED <<main_vars, chunker_vars, call_vars, config_vars,
                   exit_vars, pc,
                   dry_run, max_workers, test_call, test_response, http_sent,
                   translated_chunks, completed, dry_i, client_returned>>

\* A worker of the pool takes the task at the head of the queue, if fewer
\* than max_workers tasks are running.
WorkerStart(i) ==
    /\ pc \in {"submitting", "collecting", "shutdown"}
    /\ futures[i].st = "queued"
    /\ \A j \in 1..(i - 1) : futures[j].st # "queued"
    /\ Cardinality(Running) < max_workers
    /\ futures' = [futures EXCEPT ![i] = WorkerEntry(futures[i], i, chunks[i])]
    /\ UNCHANGED <<main_vars, chunker_vars, call_vars, config_vars,
                   exit_vars, pc,
                   dry_run,
                   max_workers, test_call, test_response, http_sent,
                   translated_chunks, completed, dry_i, client_returned>>

\* A step of the translate_text call of the worker of chunk i; when the call
\* returns, so does the worker.
WorkerStep(i) ==
    /\ pc \in {"submitting", "collecting", "shutdown"}
    /\ futures[i].st = "running"
    /\ \E c \in TranslateSuccessors(futures[i].call, chunks[i], dry_run,
                                    MaxRateLimits) :
        /\ http_sent' = (http_sent \/ c.st = "Sending")
        /\ IF Terminal(c)
           THEN /\ futures' = [futures EXCEPT
                                  ![i] = WorkerExit(futures[i], i, c)]
                /\ client_returned' = [client_returned EXCEPT ![i] = c.result]
           ELSE /\ futures' = [futures EXCEPT ![i].call = c]
                /\ UNCHANGED client_returned
    /\ UNCHANGED <<main_vars, chunker_vars, call_vars, config_vars,
                   exit_vars, pc,
                   dry_run,
                   max_workers, test_call, test_response, translated_chunks,
                   completed, dry_i>>

\* An exception that translate_text does not catch (a MemoryError, say) is
\* raised in the worker of chunk i before the try block is entered: the
\* future holds the exception.
WorkerFault(i) ==
    /\ pc \in {"submitting", "collecting", "shutdown"}
    /\ futures[i].st = "running"
    /\ futures[i].call.st = "Start"
    /\ futures' = [futures EXCEPT ![i].st = "done", ![i].exc = TRUE,
                                  ![i].outcome = "raised"]
    /\ UNCHANGED <<main_vars, chunker_vars, call_vars, config_vars,
                   exit_vars, pc,
                   dry_run,
                   max_workers, test_call, test_response, http_sent,
                   translated_chunks, completed, dry_i, client_returned>>

\* as_completed yields the future of chunk i, which is done, and the body of
\* the loop stores its result.
Collect(i) ==
    /\ pc = "collecting"
    /\ futures[i].st = "done"
    /\ LET r == StoreResult(translated_chunks, futures[i], i, chunks[i],
                            completed)
       IN /\ translated_chunks' = r.slots
          /\ completed' = r.completed
          /\ pc' = IF r.aborted THEN "aborted" ELSE pc
    /\ futures' = [futures EXCEPT ![i].st = "collected"]
    /\ UNCHANGED <<main_vars, chunker_vars, call_vars, config_vars,
                   exit_vars, dry_run,
                   max_workers,
                   test_call, test_response, http_sent, dry_i,
                   client_returned>>

\* Every future was yielded: the pool is shut down and the slots returned.
Return ==
    /\ pc = "collecting"
    /\ \A i \in 1..Len(chunks) : futures[i].st = "collected"
    /\ pc' = "returned"
    /\ UNCHANGED <<main_vars, chunker_vars, call_vars, config_vars,
                   exit_vars, dry_run,
                   max_workers,
                   test_call, test_response, http_sent, futures,
                   translated_chunks, completed, dry_i, client_returned>>

\* _read_file raises (the file can no longer be read): the except clause of
\* translate_file logs the error, then returns True in a dry run, so that
\* main ends normally, and raises it again otherwise, so that main exits
\* with status 1.
ReadFail ==
    /\ pc = "ready"
    /\ pc' = "exited"
    /\ exit_status' = IF dry_run THEN 0 ELSE 1
    /\ UNCHANGED <<main_vars, chunker_vars, call_vars, config_vars, dry_run,
                   max_workers,
                   test_call, test_response, http_sent, futures,
                   translated_chunks, completed, dry_i, client_returned,
                   output, interrupted>>

\* A variant of WriteOutcomes that does not look at config.dry_run.
WriteOutcomesIgnoreDryRun(dry, translated_content) ==
    {[output |-> translated_content, raised |-> FALSE],
     [output |-> Untouched, raised |-> TRUE]}

\* The outcomes of _write_file for a content: nothing is written in a dry
\* run; otherwise the file is opened and the content written to it, or
\* mkdir or open raises OSError and nothing is written.
WriteOutcomes(dry, translated_content) ==
    IF dry
    THEN {[output |-> Untouched, raised |-> FALSE]}
    ELSE {[output |-> translated_content, raised |-> FALSE],
          [output |-> Untouched, raised |-> TRUE]}

\* translate_file joins the list the Dispatcher returned and hands it to
\* _write_file; it returns True and main ends normally, or the OSError of
\* _write_file reaches main, which exits with status 1.
WriteFile ==
    /\ pc = "returned"
    /\ \E w \in WriteOutcomes(dry_run, Join(translated_chunks)) :
        /\ output' = w.output
        /\ exit_status' = IF w.raised THEN 1 ELSE 0
    /\ pc' = "exited"
    /\ UNCHANGED <<main_vars, chunker_vars, call_vars, config_vars, dry_run,
                   max_workers,
                   test_call, test_response, http_sent, futures,
                   translated_chunks, completed, dry_i, client_returned,
                   interrupted>>

\* A variant of Interrupt that saves the results it has to the output file.
InterruptWritesPartial ==
    /\ pc \in {"ready", "dry_loop", "submitting", "collecting"}
    /\ interrupted' = TRUE
    /\ output' = Join([i \in 1..Len(translated_chunks) |->
                          IF translated_chunks[i] = None
                          THEN <<>> ELSE translated_chunks[i]])
    /\ IF pc \in {"submitting", "collecting"}
       THEN /\ pc' = "shutdown"
            /\ UNCHANGED exit_status
       ELSE /\ pc' = "exited"
            /\ exit_status' = 1
    /\ UNCHANGED <<main_vars, chunker_vars, call_vars, config_vars, dry_run,
                   max_workers,
                   test_call, test_response, http_sent, futures,
                   translated_chunks, completed, dry_i, client_returned>>

\* A KeyboardInterrupt is raised in the main thread while translate_file is
\* at work and the Dispatcher has not returned.  No except clause on the way
\* catches it (they name Exception) until main's own, which exits with
\* status 1.  When the pool exists, the interrupt first leaves the with
\* block, whose exit is executor.shutdown(wait=True).
Interrupt ==
    /\ pc \in {"ready", "dry_loop", "submitting", "collecting"}
    /\ interrupted' = TRUE
    /\ IF pc \in {"submitting", "collecting"}
       THEN /\ pc' = "shutdown"
            /\ UNCHANGED exit_status
       ELSE /\ pc' = "exited"
            /\ exit_status' = 1
    /\ UNCHANGED <<main_vars, chunker_vars, call_vars, config_vars, dry_run,
                   max_workers,
                   test_call, test_response, http_sent, futures,
                   translated_chunks, completed, dry_i, client_returned,
                   output>>

\* executor.shutdown(wait=True) returns when every task that was submitted
\* has run: the KeyboardInterrupt goes on to main, which exits with status 1.
ShutdownDone ==
    /\ pc = "shutdown"
    /\ \A i \in 1..Len(chunks) : futures[i].st \notin {"queued", "running"}
    /\ pc' = "exited"
    /\ exit_status' = 1
    /\ UNCHANGED <<main_vars, chunker_vars, call_vars, config_vars, dry_run,
                   max_workers,
                   test_call, test_response, http_sent, futures,
                   translated_chunks, completed, dry_i, client_returned,
                   output, interrupted>>

Next ==
    \/ TestConnection
    \/ TestStep
    \/ DispatchBegin
    \/ DryIterate
    \/ DryReturn
    \/ Submit
    \/ \E i \in 1..Len(chunks) : WorkerStart(i)
    \/ \E i \in 1..Len(chunks) : WorkerStep(i)
    \/ \E i \in 1..Len(chunks) : WorkerFault(i)
    \/ \E i \in 1..Len(chunks) : Collect(i)
    \/ Return
    \/ ReadFail
    \/ WriteFile
    \/ Interrupt
    \/ ShutdownDone

Spec == Init /\ [][Next]_vars

\* ------------------------------------------------ main's loop over the files
\* What becomes of an input file in the pipeline of translate_file: it is
\* read and its output written, _read_file raises for it, or _write_file does.
FileConditions == {"ok", "unreadable", "unwritable"}

\* A variant of TranslateFile whose except clause returns True in every run.
TranslateFileSwallowsErrors(condition, dry) ==
    IF condition = "unreadable" THEN [raised |-> FALSE, wrote |-> FALSE]
    ELSE IF dry THEN [raised |-> FALSE, wrote |-> FALSE]
    ELSE IF condition = "unwritable" THEN [raised |-> FALSE, wrote |-> FALSE]
    ELSE [raised |-> FALSE, wrote |-> TRUE]

\* translate_file for one file, as main sees it: whether it raises, and
\* whether the output file was written.  The Dispatcher raises nothing;
\* _write_file writes nothing in a dry run; the except clause returns True in
\* a dry run and raises again otherwise.
TranslateFile(condition, dry) ==
    IF condition = "unreadable" THEN [raised |-> ~dry, wrote |-> FALSE]
    ELSE IF dry THEN [raised |-> FALSE, wrote |-> FALSE]
    ELSE IF condition = "unwritable" THEN [raised |-> TRUE, wrote |-> FALSE]
    ELSE [raised |-> FALSE, wrote |-> TRUE]

MainInit ==
    /\ ChunkerIdle
    /\ CallIdle
    /\ ConfigIdle
    /\ pc = "main_loop"
    /\ dry_run \in BOOLEAN
    /\ max_workers = 1
    /\ test_call = CallStart
    /\ test_response = "none"
    /\ http_sent = FALSE
    /\ futures = <<>>
    /\ translated_chunks = <<>>
    /\ completed = 0
    /\ dry_i = 0
    /\ client_returned = <<>>
    /\ output = Untouched
    /\ exit_status = -1
    /\ interrupted = FALSE
    /\ input_files \in UNION {[1..n -> FileConditions] : n \in 0..MaxFiles}
    /\ file_index = 1
    /\ attempted = <<>>
    /\ written = {}

\* One round of main's for loop: translate_file for the next file.  If it
\* raises, the except clause of main exits with status 1.
MainTranslateFile ==
    /\ pc = "main_loop"
    /\ file_index <= Len(input_files)
    /\ LET r == TranslateFile(input_files[file_index], dry_run)
       IN /\ attempted' = Append(attempted, file_index)
          /\ written' = IF r.wrote THEN written \cup {file_index} ELSE written
          /\ IF r.raised
             THEN /\ pc' = "exited"
                  /\ exit_status' = 1
                  /\ UNCHANGED file_index
             ELSE /\ file_index' = file_index + 1
                  /\ UNCHANGED <<pc, exit_status>>
    /\ UNCHANGED <<chunker_vars, call_vars, config_vars, dry_run, max_workers,
                   test_call, test_response, http_sent, futures,
                   translated_chunks, completed, dry_i, client_returned,
                   output, interrupted, input_files>>

\* A KeyboardInterrupt is raised while translate_file is at work on the next
\* file, before its output is written: main exits with status 1.
MainInterrupt ==
    /\ pc = "main_loop"
    /\ file_index <= Len(input_files)
    /\ attempted' = Append(attempted, file_index)
    /\ interrupted' = TRUE
    /\ pc' = "exited"
    /\ exit_status' = 1
    /\ UNCHANGED <<chunker_vars, call_vars, config_vars, dry_run, max_workers,
                   test_call, test_response, http_sent, futures,
                   translated_chunks, completed, dry_i, client_returned,
                   output, input_files, file_index, written>>

\* The loop is over: main returns and the process ends with status 0.
MainFinish ==
    /\ pc = "main_loop"
    /\ file_index > Len(input_files)
    /\ pc' = "exited"
    /\ exit_status' = 0
    /\ UNCHANGED <<chunker_vars, call_vars, config_vars, dry_run, max_workers,
                   test_call, test_response, http_sent, futures,
                   translated_chunks, completed, dry_i, client_returned,
                   output, interrupted, main_vars>>

MainNext == MainTranslateFile \/ MainInterrupt \/ MainFinish

MainSpec == MainInit /\ [][MainNext]_vars

\* ----------------------------------------------------- claims on main's loop
\* The pipeline of translate_file failed for the k-th file: an error other
\* than an interrupt was raised inside it.
PipelineFailed(k) ==
    /\ k \in 1..Len(attempted)
    /\ ~(interrupted /\ k = Len(attempted))
    /\ \/ input_files[k] = "unreadable"
       \/ input_files[k] = "unwritable" /\ ~dry_run

\* The files were attempted one at a time, in the order of the list.
InInputOrder == attempted = [k \in 1..Len(attempted) |-> k]

\* C19 as stated: files are processed one at a time in input order, and when
\* the pipeline fails for file N with an error other than an interrupt, no
\* file after N is attempted and the process exits with status 1.
C19_FailureStopsTheRun ==
    /\ InInputOrder
    /\ \A k \in 1..Len(attempted) :
          PipelineFailed(k) =>
             /\ k = Len(attempted)
             /\ pc = "exited"
             /\ exit_status = 1

\* C19 as amended: files are processed one at a time in input order.  In a
\* run that is not a dry run, when the pipeline fails for file N with an
\* error other than an interrupt, no file after N is attempted and the
\* process exits with status 1.  In a dry run translate_file logs the error
\* and returns True: the files after N are attempted, no file is written,
\* and a run that is not interrupted attempts every file and ends with
\* status 0.
C19_FailureStopsTheRunUnlessDry ==
    /\ InInputOrder
    /\ written \subseteq {k \in 1..Len(attempted) : input_files[k] = "ok"}
    /\ ~dry_run =>
          \A k \in 1..Len(attempted) :
             PipelineFailed(k) =>
                /\ k = Len(attempted)
                /\ pc = "exited"
                /\ exit_status = 1
    /\ dry_run =>
          /\ written = {}
          /\ (pc = "exited" /\ ~interrupted) =>
                /\ Len(attempted) = Len(input_files)
                /\ exit_status = 0

\* The second of three files could not be written: the first was written,
\* the third never attempted, and the process exited with status 1.
C19_Witness ==
    /\ ~dry_run
    /\ input_files = <<"ok", "unwritable", "ok">>
    /\ attempted = <<1, 2>>
    /\ written = {1}
    /\ pc = "exited"
    /\ exit_status = 1

\* ------------------------------------------------ claims on the Dispatcher
\* The chunks of the run whose slot holds a result.
Filled == {i \in 1..Len(translated_chunks) : translated_chunks[i] # None}

\* The result the Dispatcher owes chunk i: what translate_text returned for
\* it, or the chunk itself when the client was not called (a whitespace-only
\* chunk, a dry run) or the worker raised.
ResultFor(i) ==
    IF futures[i].outcome \in {"Succeeded", "FailedFallback"}
    THEN client_returned[i]
    ELSE chunks[i]

\* C2: for every chunk list and every interleaving of the workers, the
\* Dispatcher returns a list as long as its input, with a result (never
\* None) at every index, and the result at index i is the result for chunk
\* i, whatever the order of completion.
C2_ResultAtEveryIndex ==
    /\ \A i \in Filled : translated_chunks[i] = ResultFor(i)
    /\ pc = "returned" =>
          /\ Len(translated_chunks) = Len(chunks)
          /\ Filled = 1..Len(chunks)

\* A dispatch of two chunks with different translations has returned.
C2_Witness ==
    /\ pc = "returned"
    /\ ~dry_run
    /\ max_workers = 2
    /\ Len(chunks) = 2
    /\ futures[1].outcome = "Succeeded"
    /\ futures[2].outcome = "Succeeded"
    /\ translated_chunks[1] # translated_chunks[2]

\* C3: when the translation of chunk i fails for good (the client's call
\* fails, or an exception leaves the worker), the result at index i is the
\* text of chunk i, the run does not abort, and the result at every other
\* index is what that chunk's own call made it.
C3_FailedChunkFallsBack ==
    /\ pc # "aborted"
    /\ (pc = "returned" /\ ~dry_run) =>
          \A i \in 1..Len(chunks) :
             /\ futures[i].outcome \in
                   {"Succeeded", "FailedFallback", "raised", "skipped"}
             /\ futures[i].outcome \in {"FailedFallback", "raised"} =>
                   translated_chunks[i] = chunks[i]
             /\ futures[i].outcome = "Succeeded" =>
                   translated_chunks[i] \in
                      {Clean(c) : c \in RawContents(chunks[i])}

\* A dispatch has returned in which the worker of the first chunk raised and
\* the second chunk was translated.
C3_Witness ==
    /\ pc = "returned"
    /\ Len(chunks) = 2
    /\ futures[1].outcome = "raised"
    /\ translated_chunks[1] = chunks[1]
    /\ futures[2].outcome = "Succeeded"
    /\ translated_chunks[2] # chunks[2]

\* C4 as stated: a dry run sends no HTTP request (self-test included) and
\* the Dispatcher's result at the index of every chunk that is not
\* whitespace only is the placeholder of that chunk.
C4_DryRunReturnsPlaceholders ==
    /\ dry_run => ~http_sent
    /\ (pc = "returned" /\ dry_run) =>
          \A i \in 1..Len(chunks) :
             ~IsBlank(chunks[i]) =>
                translated_chunks[i] = Placeholder(chunks[i])

\* C4 as amended: a dry run sends no HTTP request (self-test included), and
\* translate_text returns one placeholder for every chunk that is not
\* whitespace only, but the Dispatcher drops it: its result at every index
\* is the chunk itself.
C4_DryRunPlaceholdersDropped ==
    /\ dry_run => ~http_sent
    /\ (pc = "returned" /\ dry_run) =>
          /\ translated_chunks = chunks
          /\ \A i \in 1..Len(chunks) :
                client_returned[i] =
                   IF IsBlank(chunks[i]) THEN None
                                         ELSE Placeholder(chunks[i])

\* A dry run over two chunks, the first of them prose, has returned.
C4_Witness ==
    /\ pc = "returned"
    /\ dry_run
    /\ Len(chunks) = 2
    /\ ~IsBlank(chunks[1])
    /\ client_returned[1] = Placeholder(chunks[1])

\* C5: a chunk that is empty or whitespace only is returned unchanged at its
\* index, and translate_text is never called (so no request is sent) for it,
\* in a dry run or not.
C5_BlankChunkPassesThrough ==
    \A i \in 1..Len(chunks) :
       IsBlank(chunks[i]) =>
          /\ futures[i].st # "running"
          /\ futures[i].call = CallStart
          /\ client_returned[i] = None
          /\ i \in Filled => translated_chunks[i] = chunks[i]
          /\ pc = "returned" => translated_chunks[i] = chunks[i]

\* A dispatch has returned a whitespace-only chunk beside a translated one.
C5_Witness ==
    /\ pc = "returned"
    /\ ~dry_run
    /\ Len(chunks) = 2
    /\ chunks[1] = <<"\n">>
    /\ translated_chunks[1] = chunks[1]
    /\ futures[1].outcome = "skipped"
    /\ futures[2].outcome = "Succeeded"

\* C9: a response body without choices[0].message.content makes the
\* connectivity self-test fail, and the construction of the translator
\* abort, while the same body in the translation of a chunk makes the
\* chunk's result the chunk itself.
C9_MalformedBodyFailsSelfTest ==
    /\ test_response = "missing" => pc = "connect_failed"
    /\ \A i \in 1..Len(chunks) :
          (futures[i].outcome = "FailedFallback"
              /\ futures[i].error = "ValueError")
          => futures[i].text = chunks[i]

\* C12: in every reachable state of a dispatch at most max_workers chunk
\* translations are in flight; a chunk is in flight from the moment a worker
\* takes it until its translate_text call has returned (or raised), the
\* rate-limit sleeps and resends of that call included; and a worker takes a
\* chunk only when fewer than max_workers chunks are in flight.
C12_InFlightAtMostMaxWorkers ==
    /\ [](/\ Cardinality(Running) <= max_workers
          /\ \A i \in 1..Len(futures) :
                futures[i].call.st # "Start" => futures[i].st = "running")
    /\ [][\A i \in 1..Len(futures) :
            /\ (futures[i].st = "queued" /\ futures'[i].st # "queued")
                  => Cardinality(Running) < max_workers
            /\ (futures[i].st = "running" /\ futures'[i].st # "running")
                  => /\ futures'[i].st = "done"
                     /\ futures'[i].outcome \in
                           {"Succeeded", "FailedFallback", "raised"}]_vars

\* The one worker of a pool sleeps on a rate limit for the first chunk while
\* the second chunk waits in the queue.
C12_Witness ==
    /\ max_workers = 1
    /\ Len(chunks) = 2
    /\ futures[1].st = "running"
    /\ futures[1].call.st = "RateLimited"
    /\ futures[2].st = "queued"

C18_InterruptStopsNewWork ==
    /\ [][interrupted =>
            \A i \in 1..Len(futures) :
               futures[i].st = "queued" => futures'[i].st = "queued"]_vars
    /\ []((interrupted /\ pc = "exited") => exit_status = 1)

ConfigArgs ==
    [api_key : {"", "sk"},
     source_lang : {"", "galician"},
     target_lang : {"", "english"},
     chunk_size : -1..MaxConfigInt,
     max_tokens : -1..MaxConfigInt,
     temperature10 : {-1, 0, 1, 20, 21}]

ConfigInit ==
    /\ ChunkerIdle
    /\ CallIdle
    /\ RunIdle
    /\ MainIdle
    /\ config_args \in ConfigArgs
    /\ config = [status |-> "pending", message |-> ""]

\* Config(...): the dataclass sets the fields and runs __post_init__.
Construct ==
    /\ config.status = "pending"
    /\ config' = IF PostInit(config_args) = ""
                 THEN [status |-> "built", message |-> ""]
                 ELSE [status |-> "ValueError",
                       message |-> PostInit(config_args)]
    /\ UNCHANGED <<main_vars, chunker_vars, call_vars, run_vars, config_args>>

ConfigNext == Construct

ConfigSpec == ConfigInit /\ [][ConfigNext]_vars

\* ------------------------------------------------- claims on Configuration
\* C8: constructing a Config fails, and yields no instance, whenever the
\* credential is empty, a language is empty, the chunk budget or the
\* response cap is not positive, or the temperature is outside [0, 2].
C8_InvalidConfigRejected ==
    (/\ config.status # "pending"
     /\ \/ config_args.api_key = ""
        \/ config_args.source_lang = ""
        \/ config_args.target_lang = ""
        \/ config_args.chunk_size <= 0
        \/ config_args.max_tokens <= 0
        \/ config_args.temperature10 < 0
        \/ config_args.temperature10 > 20)
    => config.status = "ValueError"

\* A construction was refused for its chunk budget of 0 alone.
C8_Witness ==
    /\ config.status = "ValueError"
    /\ config.message = "Chunk size must be positive"
    /\ config_args.chunk_size = 0
    /\ config_args.max_tokens > 0
    /\ config_args.temperature10 = 20

\* ------------------------------------------- claims on one translation call
\* The transitions of the state machine of a single translation call.
CallTransitions ==
    {<<"Start", "DonePlaceholder">>, <<"Start", "Sending">>,
     <<"Sending", "RateLimited">>, <<"RateLimited", "Sending">>,
     <<"Sending", "Succeeded">>, <<"Sending", "FailedFallback">>}

\* The three terminal outcomes of a call, each with what it returns.
CallOutcomeOk ==
    /\ call.st \in {"Start", "Sending", "RateLimited",
                    "DonePlaceholder", "Succeeded", "FailedFallback"}
    /\ call.st = "DonePlaceholder" =>
          /\ call_dry
          /\ call.result = Placeholder(call_text)
          /\ call.depth = 0
    /\ call.st = "Succeeded" =>
          /\ ~call_dry
          /\ call.result \in {Clean(c) : c \in RawContents(call_text)}
    /\ call.st = "FailedFallback" =>
          /\ ~call_dry
          /\ call.result = call_text
    /\ \/ Terminal(call)
       \/ TranslateSuccessors(call, call_text, call_dry, RecursionLimit) # {}

\* C6: a call of translate_text never raises to its caller and ends in one
\* of Done-Placeholder (dry run: the placeholder, no request sent), Succeeded
\* (the cleaned content of the response) or Failed-Fallback (the input text
\* unchanged); its only transitions are Start -> Done-Placeholder,
\* Start -> Sending, Sending -> Rate-Limited -> Sending, Sending -> Succeeded
\* and Sending -> Failed-Fallback.
C6_CallStateMachine ==
    /\ []CallOutcomeOk
    /\ [][call'.st # call.st => <<call.st, call'.st>> \in CallTransitions]_vars

\* A call failed on a malformed response after it had been rate limited.
C6_Witness ==
    /\ call.st = "FailedFallback"
    /\ call.error = "ValueError"
    /\ call.depth = 3
    /\ call.result = call_text

\* C7: when the service answers n rate-limit responses and then HTTP 200,
\* the call sleeps once per rate-limit response for its Retry-After (60
\* without the header), sends the request again after each sleep and returns
\* the translated content; being rate limited is never what makes a call
\* fail, however large n is.
C7_RateLimitsNeverFail ==
    /\ call.st = "RateLimited" =>
          call.sleep \in {DefaultRetryAfter, RetryAfterSeconds}
    /\ call.st = "Succeeded" =>
          call.result \in {Clean(c) : c \in RawContents(call_text)}
    /\ call.st = "FailedFallback" => call.error # "RecursionError"

\* C13: a call that is answered with HTTP 429 only finitely many times ends
\* in Done-Placeholder, Succeeded or Failed-Fallback (it is never stuck short
\* of one of them), and a call that is answered with HTTP 429 every time
\* never ends: a call that was sent and has ended was given, to its last
\* request, an answer that is not a 429 (a response, or a failure of the
\* connection, after at least one attempt).
C13_RateLimitedForeverNeverReturns ==
    /\ \/ Terminal(call)
       \/ TranslateSuccessors(call, call_text, call_dry, RecursionLimit) # {}
    /\ (Terminal(call) /\ ~call_dry) => call.attempts >= 1

\* ---------------------------------------------------- claims on the Chunker
\* C1: concatenating the chunks the Chunker returns, in index order, yields
\* exactly the input text, for every text and every positive budget.
C1_ConcatReproducesText ==
    cpc = "chunked" => Join(chunks) = content

\* The positions of the sectioning commands of a text.
SectionPositions(s) == {i \in 1..Len(s) : s[i] = "H"}

\* The second sectioning command of a text that has two.
SecondSection(s) == CHOOSE i \in SectionPositions(s) : i > 1

\* A text made of two section blocks, each under the budget: a sectioning
\* command with its body, then a second command with its body.
TwoSectionBlocks(s, size) ==
    /\ Len(s) >= 2
    /\ s[1] = "H"
    /\ Cardinality(SectionPositions(s)) = 2
    /\ ~OverBudget(SubSeq(s, 1, SecondSection(s) - 1), size)
    /\ ~OverBudget(SubSeq(s, SecondSection(s), Len(s)), size)

\* A section block as the section loop accumulates it: the command, and its
\* body unless the body is empty or whitespace only.
KeptBlock(block) ==
    IF IsBlank(Tail(block)) THEN <<"H">> ELSE block

\* The chunks start each with a sectioning command, and there are two.
TwoChunksAtSections ==
    /\ Len(chunks) = 2
    /\ chunks[1] # <<>> /\ chunks[1][1] = "H"
    /\ chunks[2] # <<>> /\ chunks[2][1] = "H"

\* C10 as stated: for a text made of two section blocks, each under the
\* budget, the Chunker returns exactly 2 chunks and each starts with its own
\* sectioning command.
C10_TwoSectionsTwoChunks ==
    (cpc = "chunked" /\ TwoSectionBlocks(content, chunk_size))
        => TwoChunksAtSections

\* C10 as amended: for such a text the Chunker returns the two blocks as two
\* chunks, each starting with its own sectioning command, exactly when the
\* first block (without a whitespace-only body) followed by the second
\* command is over the budget; otherwise the second command is appended to
\* the first chunk, and the Chunker returns one chunk holding both commands
\* or two chunks of which the second is the second body alone.
C10_TwoSectionsSplitWhenOver ==
    (cpc = "chunked" /\ TwoSectionBlocks(content, chunk_size)) =>
        LET second == SecondSection(content)
            first_block == KeptBlock(SubSeq(content, 1, second - 1))
            second_block == KeptBlock(SubSeq(content, second, Len(content)))
        IN IF OverBudget(first_block \o <<"H">>, chunk_size)
           THEN /\ TwoChunksAtSections
                /\ chunks = <<first_block, second_block>>
           ELSE /\ ~TwoChunksAtSections
                /\ \/ chunks = <<first_block \o second_block>>
                   \/ chunks = <<first_block \o <<"H">>, Tail(second_block)>>

\* A text of two section blocks was chunked into its two blocks.
C10_Witness ==
    /\ cpc = "chunked"
    /\ TwoSectionBlocks(content, chunk_size)
    /\ TwoChunksAtSections
    /\ ~IsBlank(Tail(chunks[1]))
    /\ ~IsBlank(Tail(chunks[2]))

\* The text holds no sectioning command.
NoSections(s) == SectionPositions(s) = {}

\* The paragraphs of a text that are not empty or whitespace only.
NonBlankParagraphs(s) ==
    {k \in 1..Len(SplitParagraphs(s)) : ~IsBlank(SplitParagraphs(s)[k])}

\* C11 as stated: for a text with no sectioning commands whose token
\* estimate is over the budget, the section-level pass yields exactly one
\* chunk, that chunk is over the budget (so the paragraph fallback is taken),
\* and the Chunker returns at least 2 chunks.
C11_OversizedTextSplits ==
    (cpc = "chunked" /\ NoSections(content) /\ OverBudget(content, chunk_size))
    => /\ Len(SectionChunks(content, chunk_size)) = 1
       /\ OverBudget(SectionChunks(content, chunk_size)[1], chunk_size)
       /\ Len(chunks) >= 2

\* C11 as amended: for a text with no sectioning commands that is not
\* whitespace only and whose token estimate is over the budget, the
\* section-level pass yields the text as its one chunk, over the budget, and
\* the paragraph fallback is taken; it returns at least 1 chunk, and 2 or
\* more only if the text holds at least two paragraphs that are not blank.  A
\* text without a blank line comes back as one chunk: the whole text without
\* its trailing whitespace, still over the budget when it was so.
C11_OversizedTextFallsBack ==
    (/\ cpc = "chunked"
     /\ NoSections(content)
     /\ ~IsBlank(content)
     /\ OverBudget(content, chunk_size))
    => /\ SectionChunks(content, chunk_size) = <<content>>
       /\ chunks = SplitByParagraphs(content, chunk_size)
       /\ Len(chunks) >= 1
       /\ Len(chunks) >= 2 => Cardinality(NonBlankParagraphs(content)) >= 2
       /\ SplitParagraphs(content) = <<content>> =>
             chunks = <<RStrip(content)>>

\* A text of two paragraphs, over the budget, came back as two chunks.
C11_Witness ==
    /\ cpc = "chunked"
    /\ NoSections(content)
    /\ OverBudget(content, chunk_size)
    /\ Cardinality(NonBlankParagraphs(content)) = 2
    /\ Len(chunks) = 2
    /\ ~OverBudget(chunks[1], chunk_size)
    /\ ~OverBudget(chunks[2], chunk_size)

\* C14: in the Chunker's output no chunk ends with a sectioning command
\* whose body starts the next chunk: a sectioning command stays with the text
\* that follows it.
C14_SectionStaysWithBody ==
    cpc = "chunked" =>
        \A i \in 1..(Len(chunks) - 1) :
            ~(/\ chunks[i] # <<>>
              /\ chunks[i][Len(chunks[i])] = "H"
              /\ chunks[i + 1] # <<>>
              /\ chunks[i + 1][1] # "H")

\* The segments the Chunker accumulates into chunks: the paragraphs of the
\* one oversized chunk (each as it is emitted alone) when the paragraph
\* fallback is taken, the pieces of the section split otherwise.
EmittedSegments(text, size) ==
    LET section_chunks == SectionChunks(text, size)
        paragraphs == IF section_chunks = <<>> THEN <<>>
                      ELSE SplitParagraphs(section_chunks[1])
        sections == SplitSections(text, <<>>)
    IN IF Len(section_chunks) = 1 /\ OverBudget(section_chunks[1], size)
       THEN {RStrip(paragraphs[k]) : k \in 1..Len(paragraphs)}
       ELSE {sections[k] : k \in 1..Len(sections)}

\* C15: no chunk is emitted from an empty accumulator, and every emitted
\* chunk whose token estimate is over the budget is exactly one segment, not
\* split further; so a chunk assembled from two or more segments has a token
\* estimate of at most the budget.
C15_OversizedChunkIsOneSegment ==
    cpc = "chunked" =>
        \A i \in 1..Len(chunks) :
            /\ ~IsBlank(chunks[i])
            /\ OverBudget(chunks[i], chunk_size) =>
                  chunks[i] \in EmittedSegments(content, chunk_size)

\* A text was chunked into an oversized single segment and a chunk of two
\* segments that is within the budget.
C15_Witness ==
    /\ cpc = "chunked"
    /\ Len(chunks) = 2
    /\ OverBudget(chunks[1], chunk_size)
    /\ chunks[1] \in EmittedSegments(content, chunk_size)
    /\ ~OverBudget(chunks[2], chunk_size)
    /\ chunks[2] \notin EmittedSegments(content, chunk_size)

\* ------------------------------------------------ claims on the transport
\* The call ended for an error of the transport or of the service.
TransportFailed ==
    call.error \in {"ConnectionError", "HTTPError"}

KnownPrefixes == {"P1", "P2", "P3", "P4"}

\* C21: for every well-formed response, the text _extract_translation
\* returns does not begin with one of the known boilerplate prefixes;
\* equivalently, the trim-and-strip-prefix step applied to its own output
\* changes nothing.
C21_ExtractionLeavesNoPrefix ==
    call.st = "Succeeded" =>
        /\ ~(call.result # <<>> /\ Head(call.result) \in KnownPrefixes)
        /\ Clean(call.result) = call.result

====
